---- MODULE Spec2Model ----
(***************************************************************************)
(* Model of modernizer.py: a Streamlit script that sends a COBOL file      *)
(* through four model calls (extract per chunk, synthesize, generate,      *)
(* configuration), each wrapped in safe_completion's retry loop, and       *)
(* stores the four results in the session under "analysis".                *)
(*                                                                         *)
(* Abstractions.  A text is represented by its number of lines and a chunk *)
(* by the slice of lines it holds.  A JSON text is represented by the      *)
(* value it encodes (json.dumps of a value that came out of json.loads is  *)
(* decoded by the endpoint to the same value).  Model responses follow the *)
(* shape the prompts ask for: "purpose" is a string, the seven other       *)
(* extraction keys are lists; any key may be missing.                      *)
(***************************************************************************)
EXTENDS Integers, Sequences, FiniteSets, TLC

\* Largest number of chunks an uploaded file splits into.
MaxChunks == 2

\* safe_completion(..., retries=3)
retries == 3

\* split_into_chunks(text, max_lines=300)
max_lines == 300

EmptyMap == << >>

Phases == <<"extract", "synthesize", "generate", "config">>

ListKeys ==
  <<"entities", "business_rules", "control_flow", "conditional_flags",
    "file_io_operations", "external_calls", "data_lineage">>

AggregatedKeys == <<"purpose">> \o ListKeys

Range(s) == {s[j] : j \in DOMAIN s}

Min(a, b) == IF a < b THEN a ELSE b

\* dict.get(key, default)
Get(d, key, default) == IF key \in DOMAIN d THEN d[key] ELSE default

---------------------------------------------------------------------------
\* The inputs: uploaded files (line counts) and what the endpoint may answer.

LineCounts ==
  {k * max_lines : k \in 0 .. MaxChunks - 1} \cup {(MaxChunks - 1) * max_lines + 1}

\* A response with all eight keys; its lists repeat an item.
FullResponse(purpose) ==
  [purpose |-> purpose, entities |-> <<"CUST", "ACCT", "CUST">>,
   business_rules |-> <<"R1">>, control_flow |-> <<"MAIN">>,
   conditional_flags |-> << >>, file_io_operations |-> <<"READ">>,
   external_calls |-> << >>, data_lineage |-> <<"L1">>]

\* The empty object, two full responses (one with an empty purpose) and a
\* response that lacks keys and overlaps the others.
ExtractResponses ==
  { EmptyMap, FullResponse("billing"), FullResponse(""),
    [purpose |-> "ledger", entities |-> <<"ACCT", "GL">>,
     business_rules |-> <<"R2", "R1">>, external_calls |-> <<"CALLX">>] }

SynthesizeResponses ==
  { [process_map |-> <<"STEP1">>, business_rules |-> <<"R1">>,
     external_dependencies |-> << >>, risk_areas |-> << >>,
     data_lineage |-> <<"L1">>] }

GenerateResponses ==
  { [bc_mapping |-> <<"T1">>, al_code |-> "codeunit", etl_script |-> "etl",
     test_cases |-> <<"T">>] }

ConfigResponses ==
  { [environment_setup |-> <<"E">>, deployment_checklist |-> <<"D">>] }

\* What client.chat.completions.create + json.loads can yield for a phase.
ResponsesFor(p) ==
  CASE p = "extract" -> ExtractResponses
    [] p = "synthesize" -> SynthesizeResponses \cup {EmptyMap}
    [] p = "generate" -> GenerateResponses \cup {EmptyMap}
    [] OTHER -> ConfigResponses \cup {EmptyMap}

---------------------------------------------------------------------------
\* Pure functions of the program.

\* split_into_chunks: the slices [i, i+max_lines) of the n lines of the text.
split_into_chunks(n) ==
  [j \in 1 .. ((n + max_lines - 1) \div max_lines) |->
     [from |-> (j - 1) * max_lines, to |-> Min(j * max_lines, n)]]

RECURSIVE DedupeAppendAll(_, _)
DedupeAppendAll(existing, new_items) ==
  IF new_items = << >> THEN existing
  ELSE DedupeAppendAll(Append(existing, Head(new_items)), Tail(new_items))

\* dedupe_list: append each new item that the list does not hold yet.
RECURSIVE dedupe_list(_, _)
dedupe_list(existing, new_items) ==
  IF new_items = << >> THEN existing
  ELSE LET item == Head(new_items) IN
       dedupe_list(IF item \in Range(existing) THEN existing
                   ELSE Append(existing, item),
                   Tail(new_items))

MergePurposeLastWins(current, result) == Get(result, "purpose", "")

\* lines 121-123: purpose is taken from the result only while it is empty.
MergePurpose(current, result) ==
  IF current = "" THEN Get(result, "purpose", "") ELSE current

\* lines 120-125: fold one chunk's result into the aggregation dictionary.
MergeResult(agg, result) ==
  [key \in DOMAIN agg |->
     IF key = "purpose" THEN MergePurpose(agg["purpose"], result)
     ELSE dedupe_list(agg[key], Get(result, key, << >>))]

\* lines 97-106
InitialAggregated ==
  [key \in Range(AggregatedKeys) |-> IF key = "purpose" THEN "" ELSE << >>]

IsEmptyResultNever(result) == FALSE

\* line 117: `if not result`
IsEmptyResult(result) == DOMAIN result = {}

FailureResultNonEmpty == [error |-> "Model failed after retries."]

\* line 60: `return {}`
FailureResult == EmptyMap

MoreAttemptsOffByOne(attempt) == attempt <= retries

\* line 44: `for attempt in range(retries)`
MoreAttempts(attempt) == attempt < retries

BackoffLinear(attempt) == 2 * attempt + 1

\* line 57: time.sleep(2 ** attempt)
Backoff(attempt) == 2 ^ attempt

NextPhaseSwapped(p) ==
  CASE p = "extract" -> "generate"
    [] p = "generate" -> "synthesize"
    [] p = "synthesize" -> "config"
    [] OTHER -> "none"

\* lines 292-295: the function the run handler calls after phase p returned.
NextPhase(p) ==
  CASE p = "extract" -> "synthesize"
    [] p = "synthesize" -> "generate"
    [] p = "generate" -> "config"
    [] OTHER -> "none"

UserContentAccumulated(p, ext, syn, mod) ==
  CASE p = "synthesize" -> ext
    [] p = "generate" -> ext
    [] OTHER -> [synthesized |-> syn, modernized |-> mod]

\* lines 151, 187, 216-219: the user message of each later phase.
UserContent(p, ext, syn, mod) ==
  CASE p = "synthesize" -> ext
    [] p = "generate" -> syn
    [] OTHER -> [synthesized |-> syn, modernized |-> mod]

\* lines 111-114, 149-152, 185-188, 214-220
Messages(p, content) ==
  << [role |-> "system", content |-> p], [role |-> "user", content |-> content] >>

AnalysisRecordPartial(ext, syn, mod, cfg) ==
  [extracted |-> ext, synthesized |-> syn, modernized |-> mod]

\* lines 298-304
AnalysisRecord(ext, syn, mod, cfg) ==
  [extracted |-> ext, synthesized |-> syn, modernized |-> mod, bc_config |-> cfg]

---------------------------------------------------------------------------
VARIABLES
  pc,            \* position of the script
  phase,         \* the phase function being executed (or last returned)
  session,       \* st.session_state
  extracted, synthesized, modernized, bc_config,   \* the script's globals
  chunks, i, aggregated, progress,                 \* extract_from_large_cobol
  messages, attempt, result,                       \* safe_completion
  inflight,      \* requests sent to the endpoint and not yet answered
  trace,         \* what the current safe_completion invocation did so far
  started,       \* phases entered in this run, in order
  returned,      \* phases that have returned in this run
  chunkResults,  \* safe_completion's result for each chunk handled so far
  phaseInvocations, phaseAttempts,  \* of the current phase
  attempts,      \* endpoint attempts of this run
  writes         \* assignments to session["analysis"] in this run

vars ==
  << pc, phase, session, extracted, synthesized, modernized, bc_config,
     chunks, i, aggregated, progress, messages, attempt, result, inflight,
     trace, started, returned, chunkResults, phaseInvocations, phaseAttempts,
     attempts, writes >>

globals == << extracted, synthesized, modernized, bc_config >>
extraction == << chunks, i, aggregated, progress >>
history == << started, returned >>

InCall == {"attempt", "inflight", "warn", "sleep", "error"}

Init ==
  /\ pc = "idle"
  /\ phase = "none"
  /\ session = EmptyMap
  /\ extracted = EmptyMap /\ synthesized = EmptyMap
  /\ modernized = EmptyMap /\ bc_config = EmptyMap
  /\ chunks = << >> /\ i = 0
  /\ aggregated = InitialAggregated
  /\ progress = [num |-> 0, den |-> 1]
  /\ messages = << >> /\ attempt = 0 /\ result = EmptyMap
  /\ inflight = 0
  /\ trace = << >>
  /\ started = << >> /\ returned = {}
  /\ chunkResults = << >>
  /\ phaseInvocations = 0 /\ phaseAttempts = 0
  /\ attempts = 0 /\ writes = 0

\* Entering safe_completion(messages): line 43.
Invoke(msgs) ==
  /\ messages' = msgs
  /\ attempt' = 0
  /\ trace' = << >>
  /\ phaseInvocations' = phaseInvocations + 1
  /\ pc' = "attempt"

\* safe_completion's frame is gone once the caller has taken its result.
Consume ==
  /\ messages' = << >>
  /\ attempt' = 0
  /\ trace' = << >>
  /\ result' = EmptyMap

\* lines 290-108: the button is pressed on an uploaded file of n lines.
PressRun(n) ==
  /\ pc = "idle"
  /\ pc' = "loop"
  /\ phase' = "extract"
  /\ chunks' = split_into_chunks(n)
  /\ i' = 0
  /\ aggregated' = InitialAggregated
  /\ progress' = [num |-> 0, den |-> 1]
  /\ started' = <<"extract">>
  /\ returned' = {}
  /\ chunkResults' = << >>
  /\ phaseInvocations' = 0 /\ phaseAttempts' = 0
  /\ attempts' = 0 /\ writes' = 0
  /\ UNCHANGED << session, globals, messages, attempt, result, inflight, trace >>

\* lines 110-116: the next chunk is sent.
ExtractIterate ==
  /\ pc = "loop" /\ i < Len(chunks)
  /\ Invoke(Messages("extract", chunks[i + 1]))
  /\ UNCHANGED << phase, session, globals, extraction, result, inflight,
                  history, chunkResults, phaseAttempts, attempts, writes >>

\* line 129 and the assignment of line 292.
ExtractReturn ==
  /\ pc = "loop" /\ i = Len(chunks)
  /\ extracted' = aggregated
  /\ returned' = returned \cup {"extract"}
  /\ pc' = "returned"
  /\ UNCHANGED << phase, session, synthesized, modernized, bc_config,
                  extraction, messages, attempt, result, inflight, trace,
                  started, chunkResults, phaseInvocations, phaseAttempts,
                  attempts, writes >>

\* lines 44-52: one attempt at the endpoint is sent.
CallEndpoint ==
  /\ pc = "attempt"
  /\ inflight' = inflight + 1
  /\ trace' = Append(trace, [ev |-> "call", k |-> attempt])
  /\ phaseAttempts' = phaseAttempts + 1
  /\ attempts' = attempts + 1
  /\ pc' = "inflight"
  /\ UNCHANGED << phase, session, globals, extraction, messages, attempt,
                  result, history, chunkResults, phaseInvocations, writes >>

\* lines 53-54: the endpoint answers with JSON text that parses to r.
EndpointSucceeds(r) ==
  /\ pc = "inflight"
  /\ inflight' = inflight - 1
  /\ result' = r
  /\ trace' = Append(trace, [ev |-> "ok", k |-> attempt, parsed |-> r])
  /\ pc' = "ret"
  /\ UNCHANGED << phase, session, globals, extraction, messages, attempt,
                  history, chunkResults, phaseInvocations, phaseAttempts,
                  attempts, writes >>

\* line 55: the call raises, or the content does not parse.
EndpointFails ==
  /\ pc = "inflight"
  /\ inflight' = inflight - 1
  /\ trace' = Append(trace, [ev |-> "fail", k |-> attempt])
  /\ pc' = "warn"
  /\ UNCHANGED << phase, session, globals, extraction, messages, attempt,
                  result, history, chunkResults, phaseInvocations,
                  phaseAttempts, attempts, writes >>

\* line 56: st.warning
Warn ==
  /\ pc = "warn"
  /\ trace' = Append(trace, [ev |-> "warning", k |-> attempt])
  /\ pc' = "sleep"
  /\ UNCHANGED << phase, session, globals, extraction, messages, attempt,
                  result, inflight, history, chunkResults, phaseInvocations,
                  phaseAttempts, attempts, writes >>

\* line 57 and the loop's next iteration (line 44).
Sleep ==
  /\ pc = "sleep"
  /\ trace' = Append(trace, [ev |-> "sleep", k |-> attempt, secs |-> Backoff(attempt)])
  /\ attempt' = attempt + 1
  /\ pc' = IF MoreAttempts(attempt + 1) THEN "attempt" ELSE "error"
  /\ UNCHANGED << phase, session, globals, extraction, messages, result,
                  inflight, history, chunkResults, phaseInvocations,
                  phaseAttempts, attempts, writes >>

\* lines 59-60: st.error, return {}
GiveUp ==
  /\ pc = "error"
  /\ trace' = Append(trace, [ev |-> "error", k |-> attempt])
  /\ result' = FailureResult
  /\ pc' = "ret"
  /\ UNCHANGED << phase, session, globals, extraction, messages, attempt,
                  inflight, history, chunkResults, phaseInvocations,
                  phaseAttempts, attempts, writes >>

\* lines 117-118: an empty result skips the chunk.
ExtractSkip ==
  /\ pc = "ret" /\ phase = "extract"
  /\ IsEmptyResult(result)
  /\ i' = i + 1
  /\ chunkResults' = Append(chunkResults, result)
  /\ pc' = "loop"
  /\ Consume
  /\ UNCHANGED << phase, session, globals, chunks, aggregated, progress,
                  inflight, history, phaseInvocations, phaseAttempts,
                  attempts, writes >>

\* lines 120-127: the result is merged and the progress bar advanced.
ExtractMerge ==
  /\ pc = "ret" /\ phase = "extract"
  /\ ~IsEmptyResult(result)
  /\ aggregated' = MergeResult(aggregated, result)
  /\ progress' = [num |-> i + 1, den |-> Len(chunks)]
  /\ i' = i + 1
  /\ chunkResults' = Append(chunkResults, result)
  /\ pc' = "loop"
  /\ Consume
  /\ UNCHANGED << phase, session, globals, chunks, inflight, history,
                  phaseInvocations, phaseAttempts, attempts, writes >>

\* The next phase function is entered and sends its one message.
StartPhase(p) ==
  /\ pc = "returned" /\ NextPhase(phase) = p
  /\ phase' = p
  /\ started' = Append(started, p)
  /\ phaseAttempts' = 0
  /\ chunkResults' = << >>
  /\ messages' = Messages(p, UserContent(p, extracted, synthesized, modernized))
  /\ attempt' = 0
  /\ trace' = << >>
  /\ phaseInvocations' = 1
  /\ pc' = "attempt"
  /\ UNCHANGED << session, globals, extraction, result, inflight, returned,
                  attempts, writes >>

\* line 293 / lines 134-154
SynthesizeStart == StartPhase("synthesize")

\* line 294 / lines 159-190
GenerateStart == StartPhase("generate")

\* line 295 / lines 195-222
ConfigStart == StartPhase("config")

\* The phase function returns safe_completion's result to the run handler.
PhaseReturn ==
  /\ pc = "ret" /\ phase # "extract"
  /\ synthesized' = IF phase = "synthesize" THEN result ELSE synthesized
  /\ modernized' = IF phase = "generate" THEN result ELSE modernized
  /\ bc_config' = IF phase = "config" THEN result ELSE bc_config
  /\ returned' = returned \cup {phase}
  /\ pc' = "returned"
  /\ Consume
  /\ UNCHANGED << phase, session, extracted, extraction, inflight, started,
                  chunkResults, phaseInvocations, phaseAttempts, attempts,
                  writes >>

\* lines 298-304
Store ==
  /\ pc = "returned" /\ NextPhase(phase) = "none"
  /\ session' = [analysis |-> AnalysisRecord(extracted, synthesized, modernized, bc_config)]
  /\ writes' = writes + 1
  /\ pc' = "success"
  /\ UNCHANGED << phase, globals, extraction, messages, attempt, result,
                  inflight, trace, history, chunkResults, phaseInvocations,
                  phaseAttempts, attempts >>

\* line 306: st.success("Modernization Complete.")
Report ==
  /\ pc = "success"
  /\ pc' = "load"
  /\ UNCHANGED << phase, session, globals, extraction, messages, attempt,
                  result, inflight, trace, history, chunkResults,
                  phaseInvocations, phaseAttempts, attempts, writes >>

\* lines 311-315: the globals are reloaded from the session; the script run
\* ends, and with it the run's locals and counters.
LoadData ==
  /\ pc = "load"
  /\ LET analysis == Get(session, "analysis", EmptyMap) IN
       /\ extracted' = Get(analysis, "extracted", EmptyMap)
       /\ synthesized' = Get(analysis, "synthesized", EmptyMap)
       /\ modernized' = Get(analysis, "modernized", EmptyMap)
       /\ bc_config' = Get(analysis, "bc_config", EmptyMap)
  /\ pc' = "idle"
  /\ phase' = "none"
  /\ chunks' = << >> /\ i' = 0
  /\ aggregated' = InitialAggregated
  /\ progress' = [num |-> 0, den |-> 1]
  /\ started' = << >> /\ returned' = {}
  /\ chunkResults' = << >>
  /\ phaseInvocations' = 0 /\ phaseAttempts' = 0
  /\ attempts' = 0 /\ writes' = 0
  /\ UNCHANGED << session, messages, attempt, result, inflight, trace >>

\* The steps of a run in progress.
RunStep ==
  \/ ExtractIterate
  \/ ExtractReturn
  \/ CallEndpoint
  \/ \E r \in ResponsesFor(phase) : EndpointSucceeds(r)
  \/ EndpointFails
  \/ Warn
  \/ Sleep
  \/ GiveUp
  \/ ExtractSkip
  \/ ExtractMerge
  \/ SynthesizeStart
  \/ GenerateStart
  \/ ConfigStart
  \/ PhaseReturn
  \/ Store
  \/ Report
  \/ LoadData

Next ==
  \/ \E n \in LineCounts : PressRun(n)
  \/ RunStep

Spec == Init /\ [][Next]_vars

\* One run from the fresh session.  The script is a single thread: once the
\* button is pressed every step of the run is taken (the endpoint answers
\* or the call raises, sleeps end).
FirstRunNext ==
  \/ session = EmptyMap /\ \E n \in LineCounts : PressRun(n)
  \/ RunStep

FairSpec == Init /\ [][FirstRunNext]_vars /\ WF_vars(RunStep)

---------------------------------------------------------------------------
\* Vocabulary of the properties.

AllPhases == Range(Phases)

PhaseIndex(p) == CHOOSE j \in DOMAIN Phases : Phases[j] = p

EventsOf(e) == {j \in DOMAIN trace : trace[j].ev = e}

Count(e) == Cardinality(EventsOf(e))

LastEvent == trace[Len(trace)]

InSafeCompletion == pc \in InCall

\* The user message of the invocation in progress.
InputContent == messages[2].content

\* The keys an input message carries: those of the mapping it encodes, and
\* for the configuration call those of the two mappings nested in it.
InputKeys ==
  IF phase = "config"
  THEN DOMAIN InputContent.synthesized \cup DOMAIN InputContent.modernized
  ELSE DOMAIN InputContent

\* The result a phase of this run has produced.
ResultOf(p) ==
  CASE p = "extract" -> extracted
    [] p = "synthesize" -> synthesized
    [] p = "generate" -> modernized
    [] OTHER -> bc_config

RECURSIVE Concat(_)
Concat(seqs) == IF seqs = << >> THEN << >> ELSE Head(seqs) \o Concat(Tail(seqs))

\* All items the chunks handled so far returned under key, in chunk order.
ItemsReturned(key) ==
  Concat([j \in DOMAIN chunkResults |-> Get(chunkResults[j], key, << >>)])

FirstIndex(s, x) == CHOOSE j \in DOMAIN s : s[j] = x /\ \A m \in 1 .. j - 1 : s[m] # x

\* The chunks handled so far that returned a non-empty purpose.
WithPurpose == {j \in DOMAIN chunkResults : Get(chunkResults[j], "purpose", "") # ""}

ExtractionAtRest == phase = "extract" /\ pc \in {"loop", "returned"}

---------------------------------------------------------------------------
\* C1: within a run the phases are entered in the order extract, synthesize,
\* generate, configuration; a request is in flight only for the phase entered
\* last and only after every phase before it has returned; never two
\* requests are in flight.
C1_PhasesInOrderOneAtATime ==
  /\ inflight \in {0, 1}
  /\ Len(started) <= Len(Phases)
  /\ \A j \in DOMAIN started : started[j] = Phases[j]
  /\ returned \subseteq Range(started)
  /\ (InSafeCompletion \/ pc = "ret") =>
       /\ phase = started[Len(started)]
       /\ returned = {started[j] : j \in 1 .. Len(started) - 1}
  /\ inflight = 1 => pc = "inflight"
  /\ pc \in {"success", "load"} => started = Phases /\ returned = AllPhases

C1_Witness == pc = "inflight" /\ phase = "config" /\ inflight = 1

\* C2 as stated: a phase that has returned has issued exactly one endpoint
\* call, whatever the file and the failures.
C2_ExactlyOneCallPerPhase == pc = "returned" => phaseAttempts = 1

\* C2 amended: a phase that has returned has invoked safe_completion once
\* (extraction: once per chunk), and has issued at least one and at most
\* `retries` endpoint calls per invocation.
C2_CallsPerPhase ==
  pc = "returned" =>
    /\ phaseInvocations = IF phase = "extract" THEN Len(chunks) ELSE 1
    /\ phaseInvocations <= phaseAttempts
    /\ phaseAttempts <= retries * phaseInvocations

C2_Witness ==
  pc = "returned" /\ phase = "extract" /\ Len(chunks) = 2 /\ phaseAttempts = 6

\* C3: one safe_completion invocation makes at most `retries` attempts; it
\* returns what the first successful attempt parsed and attempts nothing
\* after it; each failed attempt has one warning; when every attempt failed
\* there is one error and the empty mapping is returned.
C3_RetriesCapped ==
  /\ (InSafeCompletion \/ pc = "ret") =>
       /\ Count("call") <= retries
       /\ Count("ok") <= 1
       /\ Count("warning") <= Count("fail")
       /\ \A j \in EventsOf("ok") : j = Len(trace)
       /\ \A j \in EventsOf("error") : j = Len(trace)
  /\ pc = "ret" =>
       /\ Count("warning") = Count("fail")
       /\ Count("call") = Count("fail") + Count("ok")
       /\ Count("ok") = 1 =>
            /\ result = LastEvent.parsed
            /\ Count("error") = 0
            /\ \A j \in EventsOf("call") : trace[j].k <= LastEvent.k
       /\ Count("ok") = 0 =>
            /\ Count("call") = retries
            /\ Count("error") = 1
            /\ result = EmptyMap

C3_Witness ==
  pc = "ret" /\ Count("fail") = 2 /\ Count("ok") = 1 /\ result # EmptyMap

C5_AllEarlierKeysInInput ==
  (InSafeCompletion /\ phase # "extract") =>
    \A q \in AllPhases :
      PhaseIndex(q) < PhaseIndex(phase) => DOMAIN ResultOf(q) \subseteq InputKeys

\* C5 amended: the input message of every phase after the first is the
\* result of the phase right before it (synthesize: the extraction result
\* with its eight keys; generate: the synthesis result alone; configuration:
\* the synthesis and the generation result).
C5_PreviousResultIsInput ==
  (InSafeCompletion /\ phase # "extract") =>
    /\ phase = "synthesize" =>
         InputContent = extracted /\ Range(AggregatedKeys) \subseteq InputKeys
    /\ phase = "generate" => InputContent = synthesized
    /\ phase = "config" =>
         InputContent = [synthesized |-> synthesized, modernized |-> modernized]
    /\ \A q \in AllPhases :
         PhaseIndex(q) + 1 = PhaseIndex(phase) => DOMAIN ResultOf(q) \subseteq InputKeys

C5_Witness ==
  /\ pc = "inflight" /\ phase = "generate"
  /\ synthesized # EmptyMap /\ extracted.entities # << >>

\* C6: the aggregation dictionary has exactly the eight keys, and under each
\* list key holds the items the handled chunks returned under it: every such
\* item once, no other item, in the order of first occurrence.
C6_AggregatedIsOrderedUnion ==
  ExtractionAtRest =>
    /\ DOMAIN aggregated =
         {"purpose", "entities", "business_rules", "control_flow",
          "conditional_flags", "file_io_operations", "external_calls",
          "data_lineage"}
    /\ \A key \in DOMAIN aggregated \ {"purpose"} :
         LET value == aggregated[key]
             items == ItemsReturned(key)
         IN /\ Range(value) = Range(items)
            /\ \A a, b \in DOMAIN value : a # b => value[a] # value[b]
            /\ \A a, b \in DOMAIN value :
                 a < b => FirstIndex(items, value[a]) < FirstIndex(items, value[b])

C6_Witness ==
  /\ pc = "returned" /\ phase = "extract"
  /\ aggregated.entities = <<"CUST", "ACCT", "GL">>
  /\ aggregated.business_rules = <<"R1", "R2">>

\* C7: session["analysis"] is written once per run, after all four phases
\* have returned, with all four results; the session never holds a partial
\* analysis, and nothing but that write changes the session.
C7_AnalysisWrittenOnce ==
  /\ [](/\ writes <= 1
        /\ pc \in {"success", "load"} <=> writes = 1
        /\ session # EmptyMap =>
             /\ DOMAIN session = {"analysis"}
             /\ DOMAIN session.analysis =
                  {"extracted", "synthesized", "modernized", "bc_config"}
        /\ pc \in {"success", "load"} =>
             /\ returned = AllPhases
             /\ session.analysis.extracted = extracted
             /\ session.analysis.synthesized = synthesized
             /\ session.analysis.modernized = modernized
             /\ session.analysis.bc_config = bc_config)
  /\ [][session' # session =>
          /\ returned = AllPhases /\ ~InSafeCompletion
          /\ writes = 0 /\ writes' = 1]_vars

\* A later run of the session has all four results at hand and is about to
\* store them; the analysis of the run before is still the session's.
C7_Witness ==
  /\ pc = "returned" /\ returned = AllPhases /\ writes = 0
  /\ session # EmptyMap
  /\ session.analysis.extracted.purpose = "billing"
  /\ extracted.purpose = "ledger"
  /\ session.analysis.bc_config # EmptyMap /\ bc_config = EmptyMap

C9_EmptyResultSkipsChunk ==
  /\ [][(pc = "ret" /\ phase = "extract" /\ result = EmptyMap) =>
          /\ aggregated' = aggregated
          /\ progress' = progress
          /\ i' = i + 1 /\ pc' = "loop"]_vars
  /\ []((InSafeCompletion /\ phase = "extract") =>
          /\ i < Len(chunks) /\ InputContent = chunks[i + 1]
          /\ phaseInvocations = i + 1)
  /\ []((pc = "returned" /\ phase = "extract") => phaseInvocations = Len(chunks))

C9_Witness ==
  /\ pc = "inflight" /\ phase = "extract" /\ i = 1
  /\ chunkResults = << EmptyMap >> /\ progress.num = 0

\* C10: the aggregated purpose is the purpose of the earliest handled chunk
\* that returned a non-empty one, or the empty string when there is none;
\* once it is non-empty no chunk changes it.
C10_PurposeFirstWins ==
  /\ [](ExtractionAtRest =>
          aggregated.purpose =
            IF WithPurpose = {} THEN ""
            ELSE LET first == CHOOSE j \in WithPurpose : \A m \in WithPurpose : j <= m
                 IN chunkResults[first].purpose)
  /\ [][(phase = "extract" /\ pc = "ret" /\ aggregated.purpose # "") =>
          aggregated'.purpose = aggregated.purpose]_vars

C10_Witness ==
  /\ ExtractionAtRest /\ Len(chunkResults) = 2
  /\ Get(chunkResults[1], "purpose", "none") = ""
  /\ Get(chunkResults[2], "purpose", "none") = "ledger"
  /\ aggregated.purpose = "ledger"

====
